---------------------------- MODULE Spec2Model ----------------------------
(***************************************************************************)
(* Model of src/app.py, the Streamlit security-incident dashboard.         *)
(*                                                                         *)
(* The script is re-executed from top to bottom on every session start and *)
(* on every widget change.  One execution is one action of the model: it   *)
(* loads the table through the process-wide memo of load_data, reads the   *)
(* four filter widgets, narrows the table, and renders the KPIs, charts,   *)
(* export and summary, stopping at the first statement that raises.        *)
(*                                                                         *)
(* Text is modelled with TLA+ strings; str(row) is built character by      *)
(* character the way pandas prints a row Series.                           *)
(***************************************************************************)
EXTENDS Integers, Sequences, FiniteSets, TLC

(***************************************************************************)
(* Bounds of the model.                                                    *)
(***************************************************************************)
\* Longest table used as the source of a session that never rewrites it.
MaxRows == 3
\* Longest table used when the source file is rewritten between runs.
MaxReloadRows == 1
\* Longest table whose header lacks a required column.
MaxMalformedRows == 1

(***************************************************************************)
(* The CSV columns, in file order: the nine the script reads by name and   *)
(* one free-form identifying column.                                       *)
(***************************************************************************)
Columns ==
    << "timestamp", "date", "hour", "severity", "affected_system",
       "threat_type", "confidence_score", "response_time_minutes",
       "is_resolved", "source_ip" >>

\* The columns the script subscripts by name.
RequiredColumns ==
    { "timestamp", "date", "hour", "severity", "affected_system",
      "threat_type", "confidence_score", "response_time_minutes",
      "is_resolved" }

Range(s) == { s[i] : i \in 1..Len(s) }

(***************************************************************************)
(* Raw CSV rows the source file may hold.  The last one has a timestamp    *)
(* pandas cannot parse.                                                    *)
(***************************************************************************)
RawRow(ts, d, h, sev, sys, thr, conf, resp, res, ip) ==
    [ timestamp |-> ts, date |-> d, hour |-> h, severity |-> sev,
      affected_system |-> sys, threat_type |-> thr, confidence_score |-> conf,
      response_time_minutes |-> resp, is_resolved |-> res, source_ip |-> ip ]

GoodRows ==
    { RawRow("2024-01-01 08:00:00", "2024-01-01", 8, "High", "web-01",
             "Malware", 80, 30, TRUE, "192.168.1.5"),
      RawRow("2024-01-01 09:30:00", "2024-01-01", 9, "Critical", "db-01",
             "Phishing", 95, 10, TRUE, "10.0.0.7"),
      RawRow("2024-01-02 08:00:00", "2024-01-02", 8, "High", "db-01",
             "Phishing", 60, 45, FALSE, "192.168.1.9"),
      RawRow("2024-01-02 23:15:00", "2024-01-02", 23, "Critical", "web-01",
             "Malware", 70, 20, FALSE, "172.16.0.3") }

BadRows ==
    { RawRow("not-a-date", "2024-01-03", 7, "High", "web-01",
             "Malware", 50, 5, TRUE, "192.168.1.7") }

RowPool == GoodRows \cup BadRows

\* Text the operator may type into the search box.
Queries == { "", "192.168", "HIGH", "severity", "dtype", "zzz" }

(***************************************************************************)
(* Text helpers: Python's str.lower, the `in` substring test, and the      *)
(* decimal rendering of numbers.                                           *)
(***************************************************************************)
UpperLetters == "ABCDEFGHIJKLMNOPQRSTUVWXYZ"

LowerLetters == "abcdefghijklmnopqrstuvwxyz"

\* The lower-case letter of every upper-case letter.
LowerOf ==
    [ c \in { SubSeq(UpperLetters, i, i) : i \in 1..26 } |->
        LET i == CHOOSE j \in 1..26 : SubSeq(UpperLetters, j, j) = c
        IN  SubSeq(LowerLetters, i, i) ] @@ << >>

\* str.lower on one character.
LowerChar(c) == IF c \in DOMAIN LowerOf THEN LowerOf[c] ELSE c

RECURSIVE Lower(_)
\* str.lower (src/app.py:76, both operands of `in`).
Lower(s) ==
    IF Len(s) = 0 THEN ""
    ELSE IF Len(s) = 1 THEN LowerChar(s)
    ELSE LET half == Len(s) \div 2
         IN  Lower(SubSeq(s, 1, half)) \o Lower(SubSeq(s, half + 1, Len(s)))

\* Python's `needle in hay` on strings.
Contains(hay, needle) ==
    \E i \in 1..(Len(hay) - Len(needle) + 1) :
        SubSeq(hay, i, i + Len(needle) - 1) = needle

RECURSIVE Spaces(_)
Spaces(n) == IF n <= 0 THEN "" ELSE " " \o Spaces(n - 1)

Pad2(n) == IF n < 10 THEN "0" \o ToString(n) ELSE ToString(n)

IsDigit(c) == c \in { "0", "1", "2", "3", "4", "5", "6", "7", "8", "9" }

DigitVal(c) == CHOOSE d \in 0..9 : ToString(d) = c

RECURSIVE IsNumber(_)
IsNumber(s) ==
    \/ Len(s) = 0
    \/ IsDigit(SubSeq(s, 1, 1)) /\ IsNumber(SubSeq(s, 2, Len(s)))

RECURSIVE NumberVal(_)
\* Value of a digit string, most significant digit first.
NumberVal(s) ==
    IF Len(s) = 0 THEN 0
    ELSE NumberVal(SubSeq(s, 1, Len(s) - 1)) * 10
           + DigitVal(SubSeq(s, Len(s), Len(s)))

(***************************************************************************)
(* pd.to_datetime on one cell (src/app.py:43).  The model accepts the      *)
(* "YYYY-MM-DD HH:MM:SS" layout, which is the one the rows above use; any  *)
(* other text raises, as pd.to_datetime does for text that is no date.     *)
(***************************************************************************)
TimestampParseable(s) ==
    /\ Len(s) = 19
    /\ IsNumber(SubSeq(s, 1, 4)) /\ SubSeq(s, 5, 5) = "-"
    /\ IsNumber(SubSeq(s, 6, 7)) /\ SubSeq(s, 8, 8) = "-"
    /\ IsNumber(SubSeq(s, 9, 10)) /\ SubSeq(s, 11, 11) = " "
    /\ IsNumber(SubSeq(s, 12, 13)) /\ SubSeq(s, 14, 14) = ":"
    /\ IsNumber(SubSeq(s, 15, 16)) /\ SubSeq(s, 17, 17) = ":"
    /\ IsNumber(SubSeq(s, 18, 19))
    /\ NumberVal(SubSeq(s, 6, 7)) \in 1..12
    /\ NumberVal(SubSeq(s, 9, 10)) \in 1..31
    /\ NumberVal(SubSeq(s, 12, 13)) \in 0..23
    /\ NumberVal(SubSeq(s, 15, 16)) \in 0..59
    /\ NumberVal(SubSeq(s, 18, 19)) \in 0..59

ParseTimestamp(s) ==
    [ Y |-> NumberVal(SubSeq(s, 1, 4)), M |-> NumberVal(SubSeq(s, 6, 7)),
      D |-> NumberVal(SubSeq(s, 9, 10)), h |-> NumberVal(SubSeq(s, 12, 13)),
      m |-> NumberVal(SubSeq(s, 15, 16)), s |-> NumberVal(SubSeq(s, 18, 19)) ]

\* str() of a pandas Timestamp.
TimestampStr(t) ==
    ToString(t.Y) \o "-" \o Pad2(t.M) \o "-" \o Pad2(t.D) \o " "
      \o Pad2(t.h) \o ":" \o Pad2(t.m) \o ":" \o Pad2(t.s)

(***************************************************************************)
(* The source file and the data frame.  A source is a missing file or a    *)
(* CSV with a header (its columns, in file order) and rows.  A data frame  *)
(* is None or the columns and rows read, rows labelled 0, 1, 2, ... by the *)
(* default RangeIndex.                                                     *)
(***************************************************************************)
NoneDf == [ isNone |-> TRUE, cols |-> << >>, rows |-> << >> ]

MissingFile == [ exists |-> FALSE, cols |-> << >>, rows |-> << >> ]

\* The header without column c.
Without(cols, c) == SelectSeq(cols, LAMBDA x : x # c)

\* A row cut to the columns of the header.
Project(r, cols) == [ c \in Range(cols) |-> r[c] ]

RECURSIVE SeqsUpTo(_, _)
\* All sequences over S of length at most n.
SeqsUpTo(S, n) ==
    IF n = 0 THEN { << >> }
    ELSE LET shorter == SeqsUpTo(S, n - 1)
         IN  shorter \cup { Append(t, x) : t \in shorter, x \in S }

CsvFile(cols, raw) ==
    [ exists |-> TRUE, cols |-> cols,
      rows |-> [ i \in 1..Len(raw) |-> Project(raw[i], cols) ] ]

(***************************************************************************)
(* The source files of the model: a missing file, every complete table of  *)
(* at most n rows, and every table of at most MaxMalformedRows rows whose  *)
(* header lacks one of the required columns.                               *)
(***************************************************************************)
Sources(n) ==
    { MissingFile }
      \cup { CsvFile(Columns, raw) : raw \in SeqsUpTo(RowPool, n) }
      \cup { CsvFile(Without(Columns, c), raw) :
               c \in RequiredColumns,
               raw \in SeqsUpTo(GoodRows, MaxMalformedRows) }

\* The files the source is rewritten with: a missing file and every complete
\* table of at most n rows.
ReloadSources(n) ==
    { MissingFile }
      \cup { CsvFile(Columns, raw) : raw \in SeqsUpTo(RowPool, n) }

(***************************************************************************)
(* The body of load_data (src/app.py:41-46): read_csv, then to_datetime on *)
(* the timestamp column; any exception is swallowed and None returned.     *)
(***************************************************************************)
ReadSource(src) ==
    IF ~src.exists THEN NoneDf
    ELSE IF "timestamp" \notin Range(src.cols) THEN NoneDf
    ELSE IF \E i \in 1..Len(src.rows) :
                ~TimestampParseable(src.rows[i].timestamp)
         THEN NoneDf
    ELSE [ isNone |-> FALSE, cols |-> src.cols,
           rows |-> [ i \in 1..Len(src.rows) |->
                        [ src.rows[i] EXCEPT
                            !.timestamp = ParseTimestamp(src.rows[i].timestamp) ] ] ]


(***************************************************************************)
(* str(row) for the row Series that DataFrame.apply(axis=1) hands to the   *)
(* search lambda (src/app.py:76).  pandas prints one line per column, the  *)
(* column name left-justified to the widest name, four spaces, the value   *)
(* right-justified to the widest value; then a footer with the row label   *)
(* and the dtype, which is object for a row of mixed types.                *)
(***************************************************************************)
BoolStr(b) == IF b THEN "True" ELSE "False"

\* The text pandas prints for the cell of column c.
ValueStr(c, v) ==
    CASE c = "timestamp" -> TimestampStr(v)
      [] c \in { "hour", "confidence_score", "response_time_minutes" } ->
            ToString(v)
      [] c = "is_resolved" -> BoolStr(v)
      [] OTHER -> v

Max(S) == CHOOSE x \in S : \A y \in S : y <= x

RECURSIVE RowLines(_, _, _, _, _)
RowLines(row, cols, k, nameWidth, valueWidth) ==
    IF k > Len(cols) THEN ""
    ELSE LET c == cols[k]
             v == ValueStr(c, row[c])
         IN  c \o Spaces(nameWidth - Len(c)) \o "    "
               \o Spaces(valueWidth - Len(v)) \o v \o "\n"
               \o RowLines(row, cols, k + 1, nameWidth, valueWidth)

StrRow(row, cols, label) ==
    LET nameWidth  == Max({ Len(cols[k]) : k \in 1..Len(cols) } \cup { 0 })
        valueWidth == Max({ Len(ValueStr(cols[k], row[cols[k]])) :
                              k \in 1..Len(cols) } \cup { 0 })
    IN  RowLines(row, cols, 1, nameWidth, valueWidth)
          \o "Name: " \o ToString(label) \o ", dtype: object"

(***************************************************************************)
(* Frames.  A filtered frame is the sequence of row labels it keeps, in    *)
(* its own row order; the rows themselves stay in df.                      *)
(***************************************************************************)
Row(df, label) == df.rows[label + 1]

AllLabels(df) == [ i \in 1..Len(df.rows) |-> i - 1 ]

HasColumn(df, c) == c \in Range(df.cols)

RECURSIVE Reverse(_)
Reverse(s) == IF Len(s) = 0 THEN << >> ELSE Append(Reverse(Tail(s)), Head(s))

\* Faulty variant of BooleanMask: the kept rows come out last row first.
BooleanMaskReversed(frame, mask) ==
    Reverse(SelectSeq(frame, LAMBDA i : mask[i]))

\* frame[mask]: boolean-mask indexing keeps the rows whose mask is True,
\* in the order of the frame.  The mask is a boolean per row label.
BooleanMask(frame, mask) == SelectSeq(frame, LAMBDA i : mask[i])

\* Series.unique() of one column, as a set.
Unique(df, c) == { df.rows[i][c] : i \in 1..Len(df.rows) }

(***************************************************************************)
(* The filtering logic (src/app.py:66-76), one operator per statement.     *)
(***************************************************************************)
\* Faulty variant of SeverityStep: an empty selection is taken for "no filter".
SeverityStepEmptyMeansAll(df, choice) ==
    IF choice = { } THEN AllLabels(df)
    ELSE BooleanMask(AllLabels(df),
                     [ i \in Range(AllLabels(df)) |-> Row(df, i).severity \in choice ])

\* Line 66: df[df['severity'].isin(severity_choice)].
SeverityStep(df, choice) ==
    BooleanMask(AllLabels(df),
                [ i \in Range(AllLabels(df)) |-> Row(df, i).severity \in choice ])

\* Faulty variant of SystemStep: the sentinel compared is not the one the
\* select box offers.
SystemStepWrongSentinel(df, frame, choice) ==
    IF choice # "All"
    THEN BooleanMask(frame,
           [ i \in Range(frame) |-> Row(df, i).affected_system = choice ])
    ELSE frame

\* Lines 67-68.
SystemStep(df, frame, choice) ==
    IF choice # "All Systems"
    THEN BooleanMask(frame,
           [ i \in Range(frame) |-> Row(df, i).affected_system = choice ])
    ELSE frame

\* Faulty variant of StatusStep: the mask is applied to df, not to filt_df,
\* which drops the narrowing done so far.
StatusStepOnWholeTable(df, frame, choice) ==
    IF choice = "Resolved"
    THEN BooleanMask(AllLabels(df),
           [ i \in Range(AllLabels(df)) |-> Row(df, i).is_resolved = TRUE ])
    ELSE IF choice = "Pending"
    THEN BooleanMask(AllLabels(df),
           [ i \in Range(AllLabels(df)) |-> Row(df, i).is_resolved = FALSE ])
    ELSE frame

\* Lines 69-72.
StatusStep(df, frame, choice) ==
    IF choice = "Resolved"
    THEN BooleanMask(frame,
           [ i \in Range(frame) |-> Row(df, i).is_resolved = TRUE ])
    ELSE IF choice = "Pending"
    THEN BooleanMask(frame,
           [ i \in Range(frame) |-> Row(df, i).is_resolved = FALSE ])
    ELSE frame

\* str(row).lower() of line 76.
LowerStrRow(row, cols, label) == Lower(StrRow(row, cols, label))

\* The lambda of line 76: search_query.lower() in str(row).lower().
RowMatches(row, cols, label, query) ==
    Contains(LowerStrRow(row, cols, label), Lower(query))

(***************************************************************************)
(* RowMatches tabulated once over every row a frame of the model can hold  *)
(* and every query, so that a run looks the answer up instead of           *)
(* rebuilding the text of the row.                                         *)
(***************************************************************************)
FrameRows ==
    { << ReadSource(CsvFile(Columns, << r >>)).rows[1], Columns, label >> :
        r \in GoodRows, label \in 0..(Max({ MaxRows, MaxReloadRows }) - 1) }
      \cup
    { << ReadSource(CsvFile(Without(Columns, c), << r >>)).rows[1],
         Without(Columns, c), label >> :
        r \in GoodRows, c \in RequiredColumns \ { "timestamp" },
        label \in 0..(MaxMalformedRows - 1) }

RowMatchesTable ==
    [ key \in FrameRows, query \in Queries \ { "" } |->
        RowMatches(key[1], key[2], key[3], query) ] @@ << >>

\* The lambda of line 76 on the row labelled i of df.
SearchHit(df, i, query) == RowMatchesTable[<< Row(df, i), df.cols, i >>, query]

\* Lines 75-76.
SearchStep(df, frame, query) ==
    IF query # ""
    THEN BooleanMask(frame, [ i \in Range(frame) |-> SearchHit(df, i, query) ])
    ELSE frame

\* Lines 66-72: the frame the search statement starts from.
BeforeSearch(df, sev, sys, status) ==
    StatusStep(df, SystemStep(df, SeverityStep(df, sev), sys), status)

\* Lines 66-76: the rows of filt_df.
FilterRows(df, sev, sys, status, query) ==
    SearchStep(df, BeforeSearch(df, sev, sys, status), query)


(***************************************************************************)
(* The KPI section (src/app.py:84-90).  A mean is kept as the exact pair   *)
(* (sum, n); only whether it is NaN matters to the text of the metric.     *)
(***************************************************************************)
\* Line 84: avg_count as the fraction num/den; the else-branch gives 0.
AvgCount(df) ==
    LET dates == Cardinality(Unique(df, "date"))
    IN  IF dates > 0 THEN [ num |-> Len(df.rows), den |-> dates ]
        ELSE [ num |-> 0, den |-> 1 ]

\* Faulty variant of IntOf: rounds up instead of truncating.
IntOfRoundedUp(avg) == (avg.num + avg.den - 1) \div avg.den

\* int(avg_count): truncation of a non-negative number.
IntOf(avg) == avg.num \div avg.den

\* Line 87: the delta shown under "Selected Events".
Delta(df, frame) == Len(frame) - IntOf(AvgCount(df))

\* Line 88.
CriticalCount(df, frame) ==
    Len(BooleanMask(frame,
          [ i \in Range(frame) |-> Row(df, i).severity = "Critical" ]))

RECURSIVE SumOf(_, _, _)
SumOf(df, frame, c) ==
    IF Len(frame) = 0 THEN 0
    ELSE Row(df, Head(frame))[c] + SumOf(df, Tail(frame), c)

\* Series.mean(): NaN on an empty column, else sum/n (lines 89-90).
Mean(df, frame, c) ==
    IF Len(frame) = 0 THEN [ nan |-> TRUE, sum |-> 0, n |-> 0 ]
    ELSE [ nan |-> FALSE, sum |-> SumOf(df, frame, c), n |-> Len(frame) ]

\* f"{mean:.1f}" with its unit: Python formats NaN as "nan".
MetricText(mean, unit) ==
    IF mean.nan THEN [ text |-> "nan" \o unit, sum |-> 0, n |-> 0 ]
    ELSE [ text |-> "number", sum |-> mean.sum, n |-> mean.n ]

NoMetric == [ text |-> "", sum |-> 0, n |-> 0 ]

(***************************************************************************)
(* Group counts: value_counts() and groupby().size() (lines 98, 106, 135). *)
(***************************************************************************)
ValueCounts(df, frame, c) ==
    [ v \in { Row(df, frame[k])[c] : k \in 1..Len(frame) } |->
        Cardinality({ k \in 1..Len(frame) : Row(df, frame[k])[c] = v }) ]

\* Faulty variant of IdxMaxChoices: idxmin, the least frequent value.
IdxMinChoices(counts) ==
    { v \in DOMAIN counts : \A w \in DOMAIN counts : counts[v] <= counts[w] }

(***************************************************************************)
(* value_counts().idxmax() (line 135).  value_counts sorts the counts in   *)
(* descending order with sort_values' default algorithm (quicksort, not a  *)
(* stable sort) and pandas states no order among equal counts; idxmax then *)
(* takes the first entry.  With several values at the highest count the    *)
(* value named depends on the library build: any of them.                  *)
(***************************************************************************)
IdxMaxChoices(counts) ==
    { v \in DOMAIN counts : \A w \in DOMAIN counts : counts[w] <= counts[v] }

\* Line 116: to_csv(index=False), as the header and the cells of each row.
ToCsv(df, frame) ==
    [ header |-> df.cols,
      lines  |-> [ k \in 1..Len(frame) |->
                     [ j \in 1..Len(df.cols) |->
                         ValueStr(df.cols[j], Row(df, frame[k])[df.cols[j]]) ] ] ]

NoCsv == [ header |-> << >>, lines |-> << >> ]

(***************************************************************************)
(* The widgets (src/app.py:55-63): their options and default values.       *)
(***************************************************************************)
SeverityOptions(df) == Unique(df, "severity")

DefaultSeverity(df) == Unique(df, "severity")

SystemOptions(df) == { "All Systems" } \cup Unique(df, "affected_system")

StatusOptions == { "All", "Resolved", "Pending" }

(***************************************************************************)
(* Where one execution of the script stops.  0: it runs to the end.        *)
(* Otherwise the line whose subscript raises: a column the header lacks,   *)
(* or, at line 88, the columns lost at line 76 (see ColumnsLostChoices).   *)
(***************************************************************************)
HaltLine(df, status, colsLost) ==
    CASE ~HasColumn(df, "severity") -> 56
      [] ~HasColumn(df, "affected_system") -> 58
      [] status = "Resolved" /\ ~HasColumn(df, "is_resolved") -> 70
      [] status = "Pending" /\ ~HasColumn(df, "is_resolved") -> 72
      [] ~HasColumn(df, "date") -> 84
      [] colsLost -> 88
      [] ~HasColumn(df, "confidence_score") -> 89
      [] ~HasColumn(df, "response_time_minutes") -> 90
      [] ~HasColumn(df, "threat_type") -> 98
      [] ~HasColumn(df, "hour") -> 106
      [] OTHER -> 0

\* The statement at `line` completed in a run that stopped at `halt`.
Done(halt, line) == halt = 0 \/ line < halt

\* The filter statements (lines 66-76) all completed.
Filtered(df, status) ==
    /\ ~df.isNone
    /\ HasColumn(df, "severity") /\ HasColumn(df, "affected_system")
    /\ (status # "All" => HasColumn(df, "is_resolved"))

(***************************************************************************)
(* Line 76 on a frame that is already empty.  DataFrame.apply(axis=1) on   *)
(* an empty frame does not return a boolean Series: pandas calls the       *)
(* lambda once on a dummy row and, the result being a scalar, returns an   *)
(* empty non-boolean Series, which filt_df[...] takes for a list of no     *)
(* column names.  The result has no rows either way; in the library        *)
(* versions that do this it has no columns, and line 88 raises KeyError.   *)
(***************************************************************************)
ColumnsLostChoices(df, sev, sys, status, query) ==
    IF /\ Filtered(df, status)
       /\ query # ""
       /\ Len(BeforeSearch(df, sev, sys, status)) = 0
    THEN { TRUE, FALSE }
    ELSE { FALSE }

\* The values idxmax may return at line 135, "" when the line is not run.
TopThreatChoices(df, frame, status, colsLost) ==
    IF /\ Filtered(df, status)
       /\ HaltLine(df, status, colsLost) = 0
       /\ Len(frame) > 0
    THEN IdxMaxChoices(ValueCounts(df, frame, "threat_type"))
    ELSE { "" }

\* filt_df after lines 66-76, empty when a filter statement raised.
FiltDf(df, sev, sys, status, query) ==
    IF Filtered(df, status) THEN FilterRows(df, sev, sys, status, query)
    ELSE << >>

BlankView ==
    [ banner |-> FALSE, halt |-> 0, filtered |-> FALSE, filt_df |-> << >>,
      colsLost |-> FALSE, current_count |-> 0, delta |-> 0, critical |-> 0,
      avgConfidence |-> NoMetric, avgMitigation |-> NoMetric,
      pie |-> << >>, line_data |-> << >>, csv |-> NoCsv,
      summary |-> "", top_threat |-> "" ]

(***************************************************************************)
(* Everything one execution renders from the loaded frame and the widget   *)
(* values (src/app.py:50-141).  Outputs of statements after the one that   *)
(* raised stay blank.                                                      *)
(***************************************************************************)
Script(df, frame, status, colsLost, top) ==
    IF df.isNone THEN [ BlankView EXCEPT !.banner = TRUE ]
    ELSE
      LET halt  == HaltLine(df, status, colsLost)
      IN  [ banner        |-> FALSE,
            halt          |-> halt,
            filtered      |-> Done(halt, 76),
            filt_df       |-> frame,
            colsLost      |-> colsLost,
            current_count |-> IF Done(halt, 87) THEN Len(frame) ELSE 0,
            delta         |-> IF Done(halt, 87) THEN Delta(df, frame) ELSE 0,
            critical      |-> IF Done(halt, 88)
                              THEN CriticalCount(df, frame) ELSE 0,
            avgConfidence |-> IF Done(halt, 89)
                              THEN MetricText(Mean(df, frame, "confidence_score"), "%")
                              ELSE NoMetric,
            avgMitigation |-> IF Done(halt, 90)
                              THEN MetricText(Mean(df, frame, "response_time_minutes"), "m")
                              ELSE NoMetric,
            pie           |-> IF Done(halt, 98)
                              THEN ValueCounts(df, frame, "threat_type")
                              ELSE << >>,
            line_data     |-> IF Done(halt, 106)
                              THEN ValueCounts(df, frame, "hour") ELSE << >>,
            csv           |-> IF Done(halt, 116) THEN ToCsv(df, frame) ELSE NoCsv,
            summary       |-> IF ~Done(halt, 134) THEN ""
                              ELSE IF Len(frame) > 0 THEN "info" ELSE "warning",
            top_threat    |-> IF Done(halt, 134) THEN top ELSE "" ]


(***************************************************************************)
(* State.                                                                  *)
(*   source           the CSV file on disk                                 *)
(*   sourceChanged    the file was rewritten since the script last ran     *)
(*   cache            the memo of @st.cache_data for load_data(), which    *)
(*                    takes no argument: one entry for the whole process   *)
(*   didRead          the last execution read the file                     *)
(*   ran              the script has executed at least once                *)
(*   df               what load_data() returned to the last execution      *)
(*   severity_choice, system_choice, status_choice, search_query           *)
(*                    the widget values of the last execution              *)
(*   view             what the last execution rendered                     *)
(***************************************************************************)
VARIABLES source, sourceChanged, cache, didRead, ran, df,
          severity_choice, system_choice, status_choice, search_query, view

vars ==
    << source, sourceChanged, cache, didRead, ran, df,
       severity_choice, system_choice, status_choice, search_query, view >>

InitWith(files) ==
    /\ source \in files
    /\ sourceChanged = FALSE
    /\ cache = [ set |-> FALSE, value |-> NoneDf ]
    /\ didRead = FALSE
    /\ ran = FALSE
    /\ df = NoneDf
    /\ severity_choice = { }
    /\ system_choice = "All Systems"
    /\ status_choice = "All"
    /\ search_query = ""
    /\ view = BlankView

Init == InitWith(Sources(MaxRows))

InitReload == InitWith(ReloadSources(MaxReloadRows))

(***************************************************************************)
(* load_data() behind @st.cache_data (src/app.py:39-48): the first call    *)
(* runs the body and stores what it returned, None included; every later   *)
(* call returns the stored value without running the body.                 *)
(***************************************************************************)
LoadData == IF cache.set THEN cache.value ELSE ReadSource(source)

(***************************************************************************)
(* One execution of the script with the given widget values.               *)
(***************************************************************************)
RunScript(loaded, sev, sys, status, query) ==
    /\ didRead' = ~cache.set
    /\ cache' = [ set |-> TRUE, value |-> loaded ]
    /\ df' = loaded
    /\ ran' = TRUE
    /\ sourceChanged' = FALSE
    /\ severity_choice' = sev
    /\ system_choice' = sys
    /\ status_choice' = status
    /\ search_query' = query
    /\ LET frame == FiltDf(loaded, sev, sys, status, query)
       IN  \E colsLost \in ColumnsLostChoices(loaded, sev, sys, status, query) :
             \E top \in TopThreatChoices(loaded, frame, status, colsLost) :
                view' = Script(loaded, frame, status, colsLost, top)
    /\ UNCHANGED source

\* A session starts (or the page is reloaded): every widget at its default.
NewSession ==
    LET loaded == LoadData
        sev    == IF ~loaded.isNone /\ HasColumn(loaded, "severity")
                  THEN DefaultSeverity(loaded) ELSE { }
    IN  RunScript(loaded, sev, "All Systems", "All", "")

\* The operator changes one widget, which re-executes the script.
WidgetChange ==
    /\ ran
    /\ ~df.isNone
    /\ HasColumn(df, "severity") /\ HasColumn(df, "affected_system")
    /\ \/ \E sev \in (SUBSET SeverityOptions(df)) \ { severity_choice } :
            RunScript(LoadData, sev, system_choice, status_choice, search_query)
       \/ \E sys \in SystemOptions(df) \ { system_choice } :
            RunScript(LoadData, severity_choice, sys, status_choice, search_query)
       \/ \E status \in StatusOptions \ { status_choice } :
            RunScript(LoadData, severity_choice, system_choice, status, search_query)
       \/ \E query \in Queries \ { search_query } :
            RunScript(LoadData, severity_choice, system_choice, status_choice, query)

\* The CSV file is replaced on disk while the process runs.
WriteSource ==
    /\ \E file \in ReloadSources(MaxReloadRows) :
         /\ file # source
         /\ source' = file
    /\ sourceChanged' = TRUE
    /\ UNCHANGED << cache, didRead, ran, df, severity_choice, system_choice,
                    status_choice, search_query, view >>

Next == NewSession \/ WidgetChange

Spec == Init /\ [][Next]_vars

NextReload == NewSession \/ WidgetChange \/ WriteSource

SpecReload == InitReload /\ [][NextReload]_vars


(***************************************************************************)
(* Properties.                                                             *)
(***************************************************************************)
\* The last execution completed the filter statements (lines 66-76).
FilterRan == ran /\ view.filtered

\* The last execution rendered the "Selected Events" metric (line 87).
DeltaShown == ran /\ ~df.isNone /\ Done(view.halt, 87)

Labels == Range(AllLabels(df))

\* The four predicates of the criteria, each evaluated on the full snapshot.
SeverityKept == { i \in Labels : Row(df, i).severity \in severity_choice }

SystemKept ==
    { i \in Labels :
        system_choice = "All Systems"
          \/ Row(df, i).affected_system = system_choice }

StatusKept ==
    { i \in Labels :
        \/ status_choice = "All"
        \/ status_choice = "Resolved" /\ Row(df, i).is_resolved = TRUE
        \/ status_choice = "Pending" /\ Row(df, i).is_resolved = FALSE }

QueryKept ==
    { i \in Labels : search_query = "" \/ SearchHit(df, i, search_query) }

(***************************************************************************)
(* C1: the rows of the filtered subset are exactly the snapshot rows that  *)
(* satisfy all four predicates, each evaluated on its own over the full    *)
(* snapshot and the four results intersected.                              *)
(***************************************************************************)
FilterIsIntersection ==
    FilterRan =>
      Range(view.filt_df) =
        SeverityKept \cap SystemKept \cap StatusKept \cap QueryKept

\* Every criterion restricts, and the subset is neither empty nor everything.
FilterIsIntersectionWitness ==
    /\ FilterRan
    /\ severity_choice # Unique(df, "severity")
    /\ system_choice # "All Systems"
    /\ status_choice # "All"
    /\ search_query # ""
    /\ Len(view.filt_df) >= 1
    /\ Len(df.rows) >= 3
    /\ SeverityKept # Labels /\ SystemKept # Labels
    /\ StatusKept # Labels /\ QueryKept # Labels
    /\ SystemKept # SeverityKept /\ StatusKept # SystemKept

\* Some field value of the row labelled i contains the query, ignoring case.
SomeFieldContains(i, query) ==
    \E k \in 1..Len(df.cols) :
        Contains(Lower(ValueStr(df.cols[k], Row(df, i)[df.cols[k]])),
                 Lower(query))

(***************************************************************************)
(* C2: with a non-empty query a row is kept only if the lowercased query   *)
(* is a substring of the lowercased rendering of one of its field values;  *)
(* an empty query removes no row.                                          *)
(***************************************************************************)
SearchMatchesFieldValuesOnly ==
    FilterRan =>
      /\ search_query # "" =>
           \A k \in 1..Len(view.filt_df) :
               SomeFieldContains(view.filt_df[k], search_query)
      /\ search_query = "" =>
           view.filt_df =
             BeforeSearch(df, severity_choice, system_choice, status_choice)

(***************************************************************************)
(* C3: whenever the filtered subset is empty, the average confidence and   *)
(* the average response time are shown as a "no data" marker: the run      *)
(* raises nothing, and the two metrics are neither NaN nor a number.       *)
(***************************************************************************)
EmptySubsetReportsNoData ==
    (FilterRan /\ Len(view.filt_df) = 0) =>
      /\ view.halt = 0
      /\ view.avgConfidence.text \notin { "", "nan%", "number" }
      /\ view.avgMitigation.text \notin { "", "nanm", "number" }

\* A source that is structurally invalid: no file, a required column
\* absent from the header, or a timestamp that does not parse.
StructurallyInvalid(src) ==
    \/ ~src.exists
    \/ \E c \in RequiredColumns : c \notin Range(src.cols)
    \/ /\ "timestamp" \in Range(src.cols)
       /\ \E i \in 1..Len(src.rows) : ~TimestampParseable(src.rows[i].timestamp)

(***************************************************************************)
(* C4: loading a structurally invalid source gives the load error (None),  *)
(* never a frame the rest of the script then runs on.                      *)
(***************************************************************************)
LoadErrorOnStructuralFailure ==
    (ran /\ StructurallyInvalid(source)) => df.isNone

(***************************************************************************)
(* C5: a load of an unchanged source returns the same snapshot without     *)
(* reading the source again, and a load after the source has changed       *)
(* reads it again and returns the result for the new content.              *)
(***************************************************************************)
LoadFollowsSource ==
    [][ (ran' /\ ~sourceChanged') =>
          IF ran /\ ~sourceChanged
          THEN ~didRead' /\ df' = df
          ELSE didRead' /\ df' = ReadSource(source') ]_vars

(***************************************************************************)
(* C6: with no severity selected the filtered subset is empty, whatever    *)
(* the snapshot and the other three criteria.                              *)
(***************************************************************************)
NoSeverityYieldsNothing ==
    (FilterRan /\ severity_choice = { }) => Len(view.filt_df) = 0

NoSeverityYieldsNothingWitness ==
    /\ FilterRan
    /\ severity_choice = { }
    /\ Len(df.rows) >= 2
    /\ system_choice = "All Systems"
    /\ status_choice = "All"
    /\ search_query = ""

\* Every widget holds its default value.
DefaultCriteria ==
    /\ severity_choice = Unique(df, "severity")
    /\ system_choice = "All Systems"
    /\ status_choice = "All"
    /\ search_query = ""

(***************************************************************************)
(* C7: with all-default criteria the filtered subset is the full snapshot: *)
(* every row, once, in the original order.                                 *)
(***************************************************************************)
DefaultCriteriaKeepEverything ==
    (FilterRan /\ DefaultCriteria) => view.filt_df = AllLabels(df)

DefaultCriteriaKeepEverythingWitness ==
    /\ FilterRan
    /\ DefaultCriteria
    /\ Len(df.rows) >= 3
    /\ Cardinality(Unique(df, "severity")) >= 2
    /\ Cardinality(Unique(df, "affected_system")) >= 2

\* floor(averageBaseline): rows of the snapshot per distinct date, 0 when
\* the snapshot has no date.
FloorBaseline ==
    LET dates == { df.rows[i].date : i \in 1..Len(df.rows) }
    IN  IF dates = { } THEN 0 ELSE Len(df.rows) \div Cardinality(dates)

(***************************************************************************)
(* C8: the delta shown is selectedCount - floor(averageBaseline), the      *)
(* baseline taken over the full snapshot and as 0 when it has no date;     *)
(* computing it never stops the run.                                       *)
(***************************************************************************)
DeltaIsCountMinusFloorBaseline ==
    /\ (FilterRan /\ HasColumn(df, "date")) => DeltaShown
    /\ DeltaShown =>
         /\ view.current_count = Len(view.filt_df)
         /\ view.delta = view.current_count - FloorBaseline

\* Three rows over two dates (baseline 1.5, floor 1) and a proper subset.
DeltaIsCountMinusFloorBaselineWitness ==
    /\ DeltaShown
    /\ Len(df.rows) = 3
    /\ Cardinality(Unique(df, "date")) = 2
    /\ view.current_count = 2
    /\ view.delta = 1

\* How many rows of the subset carry threat type t.
ThreatCount(t) ==
    Cardinality({ k \in 1..Len(view.filt_df) :
                    Row(df, view.filt_df[k]).threat_type = t })

ThreatsInSubset ==
    { Row(df, view.filt_df[k]).threat_type : k \in 1..Len(view.filt_df) }

\* The threat type at the highest count whose first row comes earliest.
FirstEncounteredMode ==
    LET modes == { t \in ThreatsInSubset :
                     \A u \in ThreatsInSubset : ThreatCount(u) <= ThreatCount(t) }
        first == CHOOSE k \in 1..Len(view.filt_df) :
                   /\ Row(df, view.filt_df[k]).threat_type \in modes
                   /\ \A j \in 1..(k - 1) :
                        Row(df, view.filt_df[j]).threat_type \notin modes
    IN  Row(df, view.filt_df[first]).threat_type

Increasing(s) == \A j, k \in 1..Len(s) : j < k => s[j] < s[k]

(***************************************************************************)
(* C10: the rows of the filtered subset are a sub-sequence of the          *)
(* snapshot's rows, and the export emits exactly those rows in that order. *)
(***************************************************************************)
FilterPreservesOrder ==
    /\ FilterRan =>
         /\ Range(view.filt_df) \subseteq Labels
         /\ Increasing(view.filt_df)
    /\ (ran /\ ~df.isNone /\ view.halt = 0) =>
         LET full == ToCsv(df, AllLabels(df)).lines
         IN  /\ Len(view.csv.lines) = Len(view.filt_df)
             /\ \A k \in 1..Len(view.filt_df) :
                  view.csv.lines[k] = full[view.filt_df[k] + 1]

\* Two different rows kept out of three, one dropped, and the export made.
FilterPreservesOrderWitness ==
    /\ FilterRan
    /\ view.halt = 0
    /\ Len(df.rows) = 3
    /\ Len(view.filt_df) = 2
    /\ view.csv.lines[1] # view.csv.lines[2]
    /\ ~DefaultCriteria


====
